---- MODULE Spec2Model ----
(***************************************************************************)
(* A model of pytube's stream descriptors and download pipeline            *)
(* (pytube/streams.py) and of the in-place manifest mutations              *)
(* (pytube/mixins.py).                                                     *)
(*                                                                         *)
(* Two stream descriptors built from one manifest share one monostate      *)
(* (the callback registry).  Each descriptor runs at most one call at a    *)
(* time (download, stream_to_buffer or a read of the filesize property).   *)
(* Spec is one thread making call after call on one descriptor; SpecConc   *)
(* is one thread per descriptor, the steps of their calls interleaving;    *)
(* SpecNamed is one call on one descriptor, a download naming its target   *)
(* file, prefix and directory among them.  SpecSig is apply_signature      *)
(* called on one format family, SpecDescr is apply_descrambler called on   *)
(* one encoded string, and SpecBuild is the construction of a Stream from  *)
(* one manifest record.  The transport (request.headers, request.stream),  *)
(* the solver, the filesystem and the user callbacks are the environment:  *)
(* they answer nondeterministically.  The two descriptors differ in        *)
(* subtype, so their target paths differ.  What is written through a file  *)
(* handle is on disk when the handle is closed.                            *)
(***************************************************************************)
EXTENDS Integers, Sequences, FiniteSets, TLC

VARIABLES
    monostate,         \* shared callback registry: which callbacks are registered
    content_length,    \* per descriptor: the content-length the remote reports
    _filesize,         \* per descriptor: Stream._filesize, <<>> (None) or <<n>>
    headers_ok,        \* per descriptor: a request.headers call has returned
    files,             \* filesystem: path -> [exists, data]
    call,              \* per descriptor: the locals and position of its call
    ncalls,            \* calls started so far (bounded)
    caller,            \* the caller's threading: one thread, or one per descriptor
    stream_manifest,   \* config_args[fmt]: the entries of one format family
    apply,             \* the position and locals of the apply_signature call
    record,            \* the manifest record a Stream is constructed from
    built,             \* the outcome of that construction
    stream_data,       \* the dict apply_descrambler is given
    descramble         \* the position and outcome of the apply_descrambler call

engine_vars == <<monostate, content_length, _filesize, headers_ok, files, call,
                 ncalls, caller>>

sig_vars == <<stream_manifest, apply>>

build_vars == <<record, built>>

descr_vars == <<stream_data, descramble>>

\* what the download engine leaves alone
manifest_vars == <<sig_vars, build_vars, descr_vars>>

vars == <<engine_vars, sig_vars, build_vars, descr_vars>>

----------------------------------------------------------------------------
(* Bounds of the model *)

\* the transport yields at most this many chunks per request.stream call
MaxChunks == 2
\* at most this many calls are started
MaxCalls == 3
\* a format family holds at most this many entries
MaxEntries == 2
\* apply_signature is called at most this many times on the family
MaxApply == 2

None == "None"

\* the two descriptors of the manifest
Streams == {1, 2}

\* the chunks the transport may yield
ChunkSet == {<<1>>, <<2, 3>>}

\* the content-length values the remote may report
ContentLengths == {2, 3}

----------------------------------------------------------------------------
(* Pure helpers *)

RECURSIVE Flatten(_)
\* the concatenation of a sequence of chunks
Flatten(cs) == IF cs = <<>> THEN <<>> ELSE Head(cs) \o Flatten(Tail(cs))

\* Stream.subtype of the two descriptors (set in Stream.__init__)
Subtype(d) == IF d = 1 THEN "mp4" ELSE "webm"

\* Stream.title: every descriptor of the manifest shares player_config_args
Title == "My Video"

\* Stream.default_filename: safe_filename(title) "." subtype
default_filename(d) == << <<"safe", Title>>, <<"lit", ".">>, <<"lit", Subtype(d)>> >>

\* Python's truth test of an optional string argument: None and '' are false
Truthy(arg) == arg # None /\ arg # ""

\* a target name with the prefix put after the name
ResolvePath_prefix_appended(d, output_path, filename, filename_prefix) ==
    LET name == IF Truthy(filename)
                THEN << <<"safe", filename>>, <<"lit", ".">>, <<"lit", Subtype(d)>> >>
                ELSE default_filename(d)
        prefixed == IF Truthy(filename_prefix)
                    THEN name \o << <<"safe", filename_prefix>> >>
                    ELSE name
    IN  << <<"dir", output_path>> >> \o prefixed

\* download() lines 208-216: the resolved target path.  A path is the
\* sequence of its pieces: the directory target_directory(output_path)
\* gives, then the pieces of the file name, safe_filename's results being
\* marked "safe" and literal text "lit".
ResolvePath(d, output_path, filename, filename_prefix) ==
    LET name == IF Truthy(filename)
                THEN << <<"safe", filename>>, <<"lit", ".">>, <<"lit", Subtype(d)>> >>
                ELSE default_filename(d)
        prefixed == IF Truthy(filename_prefix)
                    THEN << <<"safe", filename_prefix>> >> \o name
                    ELSE name
    IN  << <<"dir", output_path>> >> \o prefixed

\* the arguments download() may be called with
Filenames == {None, "", "clip"}
Prefixes == {None, "01_"}
OutputPaths == {None, "out"}

\* the arguments the callers of one specification use: the callers that
\* name their files use all of them, the others the defaults
FilenamesOf(c) == IF c = "one_call_named" THEN Filenames ELSE {None}
PrefixesOf(c) == IF c = "one_call_named" THEN Prefixes ELSE {None}
OutputPathsOf(c) == IF c = "one_call_named" THEN OutputPaths ELSE {None}

AllPaths ==
    {ResolvePath(d, o, f, p) :
        d \in Streams, o \in OutputPaths, f \in Filenames, p \in Prefixes}

----------------------------------------------------------------------------
(* The code's computations, one operator per expression *)

\* a filesize that asks the remote on every read
filesize_always_asks(cache) == TRUE

\* filesize, line 142: a headers request is made only while nothing is cached
filesize_needs_headers(cache) == cache = <<>>

\* filesize, line 144: the content-length is stored in self._filesize
filesize_store(value) == <<value>>

\* a skip-existing test with the size comparison inverted
skip_condition_size_inverted(skip, isfile, size, fsize) ==
    skip /\ isfile /\ size # fsize

\* download(), lines 218-222: the skip-existing test
skip_condition(skip, isfile, size, fsize) == skip /\ isfile /\ size = fsize

\* a remainder that counts chunks instead of bytes
download_decrement_by_one(rem, c) == rem - 1

\* download(), line 235: the remainder is reduced by the chunk's length
download_decrement(rem, c) == rem - Len(c)

\* a remainder that counts chunks instead of bytes
buffer_decrement_by_one(rem, c) == rem - 1

\* stream_to_buffer(), line 254: the remainder is reduced by the chunk's length
buffer_decrement(rem, c) == rem - Len(c)

\* a write that starts over at offset 0 with every chunk
file_write_rewinds(written, c) == c

\* on_progress(), line 280: file_handler.write(chunk) appends to the sink
file_write(written, c) == written \o c

\* on_complete(fh) called from inside the `with` block
with_block_still_open == FALSE

\* download(), lines 232-238: self.on_complete(fh) stands after the `with`
\* block, so the handle has been closed when it runs
with_block_left == TRUE

\* the sink a call hands to the callbacks: its own file handle or buffer
SinkOf(d) == <<IF call[d].op = "download" THEN "fh" ELSE "buffer", d>>

\* a progress report whose counter is shared by the descriptors' calls:
\* it reads the remainder of whichever call decremented one last
progress_args_shared_counter(d) ==
    [ev |-> "progress", stream |-> d, chunk |-> call[d].chunk,
     sink |-> SinkOf(d),
     rem |-> call[CHOOSE e \in Streams : e # d].bytes_remaining,
     held |-> file_write(call[d].sink, call[d].chunk),
     closed |-> call[d].fh_closed]

\* a progress report made before the chunk is written: the callback finds
\* the sink without the chunk it is told about
progress_args_before_write(d) ==
    [ev |-> "progress", stream |-> d, chunk |-> call[d].chunk,
     sink |-> SinkOf(d), rem |-> call[d].bytes_remaining,
     held |-> call[d].sink,
     closed |-> call[d].fh_closed]

\* on_progress(), line 291: on_progress(self, chunk, file_handler, bytes_remaining)
progress_args(d) ==
    [ev |-> "progress", stream |-> d, chunk |-> call[d].chunk,
     sink |-> SinkOf(d), rem |-> call[d].bytes_remaining,
     held |-> file_write(call[d].sink, call[d].chunk),
     closed |-> call[d].fh_closed]

\* on_complete(), line 308: on_complete(self, file_handle)
complete_args(d) ==
    [ev |-> "complete", stream |-> d, chunk |-> <<>>,
     sink |-> SinkOf(d), rem |-> call[d].bytes_remaining,
     held |-> call[d].sink, closed |-> call[d].fh_closed]

\* the record of file_handler.write(chunk), line 280
write_event(d) ==
    [ev |-> "write", stream |-> d, chunk |-> call[d].chunk,
     sink |-> SinkOf(d), rem |-> call[d].bytes_remaining,
     held |-> file_write(call[d].sink, call[d].chunk),
     closed |-> call[d].fh_closed]

----------------------------------------------------------------------------
(* State *)

NoFile == [exists |-> FALSE, data |-> <<>>]

IdleCall ==
    [pc |-> "idle", op |-> "none", skip_existing |-> FALSE, file_path |-> <<>>,
     output_path |-> None, filename |-> None, filename_prefix |-> None,
     bytes_remaining |-> 0, chunk |-> <<>>, sink |-> <<>>, fh_closed |-> FALSE,
     delivered |-> <<>>, events |-> <<>>, stream_requests |-> 0,
     headers_requests |-> 0, headers_ok_before |-> FALSE,
     exhausted |-> FALSE, file_before |-> NoFile, callback_raised_at |-> 0,
     outcome |-> "none", error |-> "none", result |-> <<>>]

InitEngine ==
    /\ monostate \in [on_progress : BOOLEAN, on_complete : BOOLEAN]
    /\ content_length \in [Streams -> ContentLengths]
    /\ _filesize = [d \in Streams |-> <<>>]
    /\ headers_ok = [d \in Streams |-> FALSE]
    /\ call = [d \in Streams |-> IdleCall]
    /\ ncalls = 0

\* what may lie at a target path before the first call: nothing, or a file
\* left by an earlier run
PreExisting ==
    {NoFile} \cup {[exists |-> TRUE, data |-> Flatten(cs)] :
                     cs \in {<<c>> : c \in ChunkSet} \cup (ChunkSet \X ChunkSet)}

\* no apply_signature call has been made
IdleApply ==
    [pc |-> "idle", i |-> 1, solver_calls |-> <<>>, snapshot |-> <<>>,
     error |-> <<>>, failed_at |-> 0, after_return |-> FALSE, napply |-> 0]

SigQuiet == stream_manifest = <<>> /\ apply = IdleApply

\* no Stream has been asked for
NoRecord == [itag |-> 0, mime_type |-> <<>>, codecs |-> <<>>]
NotBuilt == [pc |-> "idle", error |-> "none", streams |-> <<>>]
BuildQuiet == record = NoRecord /\ built = NotBuilt

\* no apply_descrambler call has been made
NoData == <<>>
IdleDescramble == [pc |-> "idle", error |-> "none", given |-> <<>>]
DescrQuiet == stream_data = NoData /\ descramble = IdleDescramble

\* no call is made on a descriptor
EngineQuiet ==
    /\ monostate = [on_progress |-> FALSE, on_complete |-> FALSE]
    /\ content_length = [d \in Streams |-> 2]
    /\ _filesize = [d \in Streams |-> <<>>]
    /\ headers_ok = [d \in Streams |-> FALSE]
    /\ files = [p \in AllPaths |-> NoFile]
    /\ call = [d \in Streams |-> IdleCall]
    /\ ncalls = 0
    /\ caller = "one_stream"

\* one thread makes call after call on one descriptor (section 5:
\* single-threaded, synchronous, blocking per stream); a file may lie at the
\* descriptor's default path
Init ==
    /\ InitEngine
    /\ caller = "one_stream"
    /\ \E before \in PreExisting :
         files = [p \in AllPaths |->
                    IF p = ResolvePath(1, None, None, None) THEN before ELSE NoFile]
    /\ SigQuiet /\ BuildQuiet /\ DescrQuiet

\* one thread per descriptor, each making one call on its own descriptor
InitConc ==
    /\ InitEngine
    /\ caller = "thread_per_stream"
    /\ files = [p \in AllPaths |-> NoFile]
    /\ SigQuiet /\ BuildQuiet /\ DescrQuiet

\* the paths the downloads of descriptor d may resolve to
PathsOf(d) ==
    {ResolvePath(d, o, f, p) : o \in OutputPaths, f \in Filenames, p \in Prefixes}

\* the caller makes one call on the first descriptor, a download() naming
\* its target file, prefix and directory among them, with both callbacks
\* registered; a file left by an earlier run may lie at one of the
\* descriptor's paths
InitNamed ==
    /\ monostate = [on_progress |-> TRUE, on_complete |-> TRUE]
    /\ content_length \in {cl \in [Streams -> ContentLengths] : cl[2] = 2}
    /\ _filesize = [d \in Streams |-> <<>>]
    /\ headers_ok = [d \in Streams |-> FALSE]
    /\ call = [d \in Streams |-> IdleCall]
    /\ ncalls = 0
    /\ caller = "one_call_named"
    /\ \E at \in PathsOf(1), before \in PreExisting :
         files = [p \in AllPaths |-> IF p = at THEN before ELSE NoFile]
    /\ SigQuiet /\ BuildQuiet /\ DescrQuiet

\* a call is in progress on the descriptor
Active(d) == call[d].pc \notin {"idle", "done", "raised"}

\* the caller can start a call on the descriptor
CanStart(d) ==
    /\ ncalls < MaxCalls
    /\ IF caller = "one_stream" THEN d = 1 /\ ~Active(d)
       ELSE IF caller = "one_call_named" THEN d = 1 /\ call[d].pc = "idle"
       ELSE call[d].pc = "idle"

\* the exception leaves the call; a file handle opened by `with` is closed
\* on the way out, which flushes what was written through it
Raise(d, err, c) == [c EXCEPT !.pc = "raised", !.outcome = "raised", !.error = err]

\* Stream.filesize, lines 142-145, with the transport answering `ok`
ReadFilesize(d, ok) ==
    IF filesize_needs_headers(_filesize[d]) /\ ok
    THEN /\ headers_ok' = [headers_ok EXCEPT ![d] = TRUE]
         /\ _filesize' = [_filesize EXCEPT ![d] = filesize_store(content_length[d])]
    ELSE UNCHANGED <<headers_ok, _filesize>>

\* the request.headers calls that read issues
HeadersRequests(d) == IF filesize_needs_headers(_filesize[d]) THEN 1 ELSE 0

\* the frame of a call starting on descriptor d (the frame of the
\* descriptor's previous call is gone)
NewCall(d, name) ==
    [IdleCall EXCEPT !.op = name, !.headers_requests = HeadersRequests(d),
                     !.headers_ok_before = headers_ok[d]]

\* the frames after a call starts on d
Frames(d, c) == [call EXCEPT ![d] = c]

\* whether that read raises, and what it returns when it does not
FilesizeRaises(d, ok) == filesize_needs_headers(_filesize[d]) /\ ~ok
FilesizeValue(d) ==
    IF filesize_needs_headers(_filesize[d])
    THEN filesize_store(content_length[d])[1]
    ELSE _filesize[d][1]

----------------------------------------------------------------------------
(* Operations *)

\* a read of the filesize property by the caller, lines 134-145
Filesize(d) ==
    /\ CanStart(d)
    /\ ncalls' = ncalls + 1
    /\ \E ok \in BOOLEAN :
        /\ ReadFilesize(d, ok)
        /\ LET c == NewCall(d, "filesize")
           IN  call' = Frames(d,
                 IF FilesizeRaises(d, ok)
                 THEN Raise(d, "headers", c)
                 ELSE [c EXCEPT !.pc = "done", !.outcome = "returned",
                                !.result = <<FilesizeValue(d)>>])
    /\ UNCHANGED <<monostate, content_length, files, caller, manifest_vars>>

\* the file a download() finds at its path when it is asked to skip existing
\* files and the file has the size the remote reports (NoFile otherwise)
Skippable(d, path, skip) ==
    IF skip /\ files[path].exists /\ Len(files[path].data) = content_length[d]
    THEN files[path]
    ELSE NoFile

\* download(), lines 208-230: resolve the path, test skip-existing, read
\* the total size
Download(d, output_path, filename, filename_prefix, skip) ==
    /\ CanStart(d)
    /\ ncalls' = ncalls + 1
    /\ \E ok \in BOOLEAN :
        /\ ReadFilesize(d, ok)
        /\ LET path == ResolvePath(d, output_path, filename, filename_prefix)
               c == [NewCall(d, "download") EXCEPT !.skip_existing = skip,
                                                  !.output_path = output_path,
                                                  !.filename = filename,
                                                  !.filename_prefix = filename_prefix,
                                                  !.file_path = path,
                                                  !.file_before = Skippable(d, path, skip)]
           IN  call' = Frames(d,
                 IF FilesizeRaises(d, ok)
                 THEN Raise(d, "headers", c)
                 ELSE IF skip_condition(skip, files[path].exists,
                                        Len(files[path].data), FilesizeValue(d))
                 THEN [c EXCEPT !.pc = "done", !.outcome = "returned",
                                !.result = path]
                 ELSE [c EXCEPT !.pc = "open",
                                !.bytes_remaining = FilesizeValue(d)])
    /\ UNCHANGED <<monostate, content_length, files, caller, manifest_vars>>

\* download(), lines 232-233: open the target for binary write (creating or
\* truncating it) and ask the transport for the chunk stream
OpenFile(d) ==
    /\ call[d].pc = "open"
    /\ \E ok \in BOOLEAN :
        IF ok
        THEN /\ files' = [files EXCEPT ![call[d].file_path] =
                            [exists |-> TRUE, data |-> <<>>]]
             /\ call' = [call EXCEPT ![d] =
                   [@ EXCEPT !.pc = "iter", !.stream_requests = @ + 1]]
        ELSE /\ call' = [call EXCEPT ![d] = Raise(d, "io", @)]
             /\ UNCHANGED files
    /\ UNCHANGED <<monostate, content_length, _filesize, headers_ok,
                   ncalls, caller, manifest_vars>>

\* leaving the `with` block closes the handle: what was written through it
\* is on disk
CloseFile(d) ==
    files' = [files EXCEPT ![call[d].file_path] =
                [exists |-> TRUE, data |-> call[d].sink]]

\* download(), lines 233-235: the transport yields the next chunk, ends the
\* stream, or fails
DownloadNextChunk(d) ==
    /\ call[d].pc = "iter"
    /\ call[d].op = "download"
    /\ \/ /\ Len(call[d].delivered) < MaxChunks
          /\ \E c \in ChunkSet :
               call' = [call EXCEPT ![d] =
                 [@ EXCEPT !.pc = "on_progress", !.chunk = c,
                           !.delivered = Append(@, c),
                           !.bytes_remaining = download_decrement(@, c)]]
          /\ UNCHANGED files
       \/ /\ call' = [call EXCEPT ![d] =
                 [@ EXCEPT !.pc = "on_complete", !.exhausted = TRUE,
                           !.fh_closed = with_block_left]]
          /\ IF with_block_left THEN CloseFile(d) ELSE UNCHANGED files
       \/ /\ call' = [call EXCEPT ![d] =
                 Raise(d, "transfer", [@ EXCEPT !.fh_closed = TRUE])]
          /\ CloseFile(d)
    /\ UNCHANGED <<monostate, content_length, _filesize, headers_ok,
                   ncalls, caller, manifest_vars>>

\* stream_to_buffer(), lines 246-252: create the buffer, read the total
\* size and ask the transport for the chunk stream
StreamToBuffer(d) ==
    /\ CanStart(d)
    /\ ncalls' = ncalls + 1
    /\ \E ok \in BOOLEAN :
        /\ ReadFilesize(d, ok)
        /\ LET c == NewCall(d, "stream_to_buffer")
           IN  call' = Frames(d,
                 IF FilesizeRaises(d, ok)
                 THEN Raise(d, "headers", c)
                 ELSE [c EXCEPT !.pc = "iter", !.stream_requests = @ + 1,
                                !.bytes_remaining = FilesizeValue(d)])
    /\ UNCHANGED <<monostate, content_length, files, caller, manifest_vars>>

\* stream_to_buffer(), lines 252-254: the transport yields the next chunk,
\* ends the stream, or fails
BufferNextChunk(d) ==
    /\ call[d].pc = "iter"
    /\ call[d].op = "stream_to_buffer"
    /\ \/ /\ Len(call[d].delivered) < MaxChunks
          /\ \E c \in ChunkSet :
               call' = [call EXCEPT ![d] =
                 [@ EXCEPT !.pc = "on_progress", !.chunk = c,
                           !.delivered = Append(@, c),
                           !.bytes_remaining = buffer_decrement(@, c)]]
       \/ call' = [call EXCEPT ![d] =
                 [@ EXCEPT !.pc = "on_complete", !.exhausted = TRUE]]
       \/ call' = [call EXCEPT ![d] = Raise(d, "transfer", @)]
    /\ UNCHANGED <<monostate, content_length, _filesize, headers_ok,
                   files, ncalls, caller, manifest_vars>>

\* on_complete called from inside the loop body
after_progress_completes == "on_complete"

\* where the loop goes after on_progress returns (lines 233, 252): the next
\* iteration
after_progress == "iter"

\* an engine that catches the callback's exception and goes on
progress_failure_swallowed(d, c) == [c EXCEPT !.pc = "iter"]

\* what the engine does when the progress callback raises (line 291): the
\* exception is not caught
progress_failure(d, c) ==
    Raise(d, "progress_callback", [c EXCEPT !.fh_closed = (c.op = "download")])

\* Stream.on_progress, lines 280-291: write the chunk, then call the
\* registered callback, which returns or raises
OnProgress(d) ==
    /\ call[d].pc = "on_progress"
    /\ LET written == [call[d] EXCEPT
                         !.sink = file_write(@, call[d].chunk),
                         !.events = Append(@, write_event(d))]
       IN  IF monostate.on_progress
           THEN LET called == [written EXCEPT
                                 !.events = Append(@, progress_args(d))]
                    failed == [called EXCEPT
                                 !.callback_raised_at = Len(call[d].delivered)]
                IN  \/ /\ call' = [call EXCEPT ![d] =
                                     [called EXCEPT !.pc = after_progress]]
                       /\ UNCHANGED files
                    \/ /\ call' = [call EXCEPT ![d] = progress_failure(d, failed)]
                       /\ IF call'[d].pc = "raised" /\ call[d].op = "download"
                          THEN files' = [files EXCEPT ![call[d].file_path] =
                                 [exists |-> TRUE, data |-> called.sink]]
                          ELSE UNCHANGED files
           ELSE /\ call' = [call EXCEPT ![d] =
                              [written EXCEPT !.pc = after_progress]]
                /\ UNCHANGED files
    /\ UNCHANGED <<monostate, content_length, _filesize, headers_ok,
                   ncalls, caller, manifest_vars>>

\* what the call returns: the path (line 239) or the buffer (line 258)
ReturnValue(d) ==
    IF call[d].op = "download" THEN call[d].file_path ELSE SinkOf(d)

\* Stream.on_complete, lines 304-308, and the call's return
OnComplete(d) ==
    /\ call[d].pc = "on_complete"
    /\ IF monostate.on_complete
       THEN LET called == [call[d] EXCEPT
                             !.events = Append(@, complete_args(d))]
            IN  \/ call' = [call EXCEPT ![d] =
                     [called EXCEPT !.pc = "done", !.outcome = "returned",
                                    !.result = ReturnValue(d)]]
                \/ call' = [call EXCEPT ![d] = Raise(d, "complete_callback", called)]
       ELSE call' = [call EXCEPT ![d] =
                     [@ EXCEPT !.pc = "done", !.outcome = "returned",
                               !.result = ReturnValue(d)]]
    /\ UNCHANGED <<monostate, content_length, _filesize, headers_ok,
                   files, ncalls, caller, manifest_vars>>

Next ==
    \E d \in Streams :
        \/ Filesize(d)
        \/ \E o \in OutputPathsOf(caller), f \in FilenamesOf(caller),
              p \in PrefixesOf(caller), skip \in BOOLEAN :
                Download(d, o, f, p, skip)
        \/ OpenFile(d)
        \/ DownloadNextChunk(d)
        \/ StreamToBuffer(d)
        \/ BufferNextChunk(d)
        \/ OnProgress(d)
        \/ OnComplete(d)

Spec == Init /\ [][Next]_vars

SpecConc == InitConc /\ [][Next]_vars

SpecNamed == InitNamed /\ [][Next]_vars

----------------------------------------------------------------------------
(* apply_signature (pytube/mixins.py) *)

\* A url is a sequence of pieces; "signature=" is the piece the code looks
\* for, and '&signature=' is the pieces "&" and "signature=".
UnsignedUrl == <<"https://host/videoplayback?id=1">>
PreSignedUrl == <<"https://host/videoplayback?id=1", "&", "signature=", "PRE">>

\* the js argument: the contents of the base.js asset file
Script == "base.js"

\* the signatures the solver may return
Signatures == {"SIG_A", "SIG_B"}

\* the entries a format family may hold; 's' may be absent from an entry
Entries ==
    [itag : {"18", "22"}, url : {UnsignedUrl, PreSignedUrl},
     s : {"TOKEN", None}]

RECURSIVE SeqsUpTo(_, _)
\* the sequences over S of length at most n
SeqsUpTo(S, n) ==
    IF n = 0 THEN {<<>>}
    ELSE LET shorter == SeqsUpTo(S, n - 1)
         IN  shorter \cup {Append(q, x) : q \in {r \in shorter : Len(r) = n - 1}, x \in S}

InitSig ==
    /\ stream_manifest \in SeqsUpTo(Entries, MaxEntries)
    /\ apply = IdleApply
    /\ monostate = [on_progress |-> FALSE, on_complete |-> FALSE]
    /\ content_length = [d \in Streams |-> 2]
    /\ _filesize = [d \in Streams |-> <<>>]
    /\ headers_ok = [d \in Streams |-> FALSE]
    /\ files = [p \in AllPaths |-> NoFile]
    /\ call = [d \in Streams |-> IdleCall]
    /\ ncalls = 0
    /\ caller = "one_stream"
    /\ BuildQuiet /\ DescrQuiet

\* a marker test that looks in the wrong place and never finds the marker
url_is_signed_never(url) == FALSE

\* line 33: 'signature=' in url
url_is_signed(url) == \E k \in 1..Len(url) : url[k] = "signature="

\* a signature put in front of the url
signed_url_prepended(url, signature) == <<"signature=">> \o <<signature>> \o <<"&">> \o url

\* a signed url that is computed and not stored: the entry keeps its url
signed_url_dropped(url, signature) == url

\* line 50: url + '&signature=' + signature
signed_url(url, signature) == url \o <<"&", "signature=">> \o <<signature>>

\* the exception cipher.get_signature raises: it is built from the solver's
\* arguments, (js, stream['s']), and apply_signature adds nothing to it
solver_error(js, token) == <<"solver_error", js, token>>

\* lines 29-30: a call begins to enumerate the family
ApplySignature ==
    /\ apply.pc \in {"idle", "returned", "raised"}
    /\ apply.napply < MaxApply
    /\ apply' = [IdleApply EXCEPT !.pc = "loop", !.snapshot = stream_manifest,
                                  !.after_return = (apply.pc = "returned"),
                                  !.napply = apply.napply + 1]
    /\ UNCHANGED <<stream_manifest, engine_vars, build_vars, descr_vars>>

\* lines 31-50: one iteration of the loop
SignEntry ==
    /\ apply.pc = "loop"
    /\ apply.i <= Len(stream_manifest)
    /\ LET i == apply.i
           stream == stream_manifest[i]
           url == stream.url
       IN  \/ \* lines 33-37: pre-signed, continue
              /\ url_is_signed(url)
              /\ apply' = [apply EXCEPT !.i = i + 1]
              /\ UNCHANGED stream_manifest
           \/ \* line 39: stream['s'] raises KeyError
              /\ ~url_is_signed(url)
              /\ stream.s = None
              /\ apply' = [apply EXCEPT !.pc = "raised", !.failed_at = i,
                                        !.error = <<"KeyError", "s">>]
              /\ UNCHANGED stream_manifest
           \/ \* line 39: the solver fails; nothing catches its exception
              /\ ~url_is_signed(url)
              /\ stream.s # None
              /\ apply' = [apply EXCEPT
                             !.pc = "raised", !.failed_at = i,
                             !.solver_calls = Append(@, [index |-> i, js |-> Script, s |-> stream.s,
                                                         result |-> None]),
                             !.error = solver_error(Script, stream.s)]
              /\ UNCHANGED stream_manifest
           \/ \* lines 39-50: the solver returns a signature
              /\ ~url_is_signed(url)
              /\ stream.s # None
              /\ \E signature \in Signatures :
                   /\ stream_manifest' = [stream_manifest EXCEPT
                                            ![i].url = signed_url(url, signature)]
                   /\ apply' = [apply EXCEPT
                                  !.i = i + 1,
                                  !.solver_calls = Append(@, [index |-> i, js |-> Script, s |-> stream.s,
                                                              result |-> signature])]
    /\ UNCHANGED <<engine_vars, build_vars, descr_vars>>

\* the loop is exhausted and the call returns
ApplyReturn ==
    /\ apply.pc = "loop"
    /\ apply.i > Len(stream_manifest)
    /\ apply' = [apply EXCEPT !.pc = "returned"]
    /\ UNCHANGED <<stream_manifest, engine_vars, build_vars, descr_vars>>

NextSig == ApplySignature \/ SignEntry \/ ApplyReturn

SpecSig == InitSig /\ [][NextSig]_vars

----------------------------------------------------------------------------
(* Stream.__init__ (pytube/streams.py): a descriptor is built from a record *)

\* a codecs list holds at most this many entries
MaxCodecs == 3

\* the itags of the profile table, and one that is not in it
KnownItags == {18, 140}
Itags == KnownItags \cup {999}

\* what extract.mime_type_codec returns for stream["type"]: the mime type,
\* here already split at "/", and the list of codecs
MimeTypes == {<<"video", "mp4">>, <<"audio", "webm">>}
Codecs == {"vp8", "vorbis"}

\* the records a Stream may be constructed from
Records ==
    [itag : Itags, mime_type : MimeTypes, codecs : SeqsUpTo(Codecs, MaxCodecs)]

\* is_adaptive, line 85: bool(len(self.codecs) % 2)
is_adaptive(codecs) == Len(codecs) % 2 = 1

\* is_progressive, line 93
is_progressive(codecs) == ~is_adaptive(codecs)

\* includes_audio_track, line 101
includes_audio_track(codecs, type) == is_progressive(codecs) \/ type = "audio"

\* includes_video_track, line 109
includes_video_track(codecs, type) == is_progressive(codecs) \/ type = "video"

\* a parse that takes the first codec of a pair for the audio track
parse_codecs_audio_first(codecs, type) ==
    IF ~is_adaptive(codecs)
    THEN IF Len(codecs) = 2
         THEN [raised |-> FALSE, video |-> codecs[2], audio |-> codecs[1]]
         ELSE [raised |-> TRUE, video |-> None, audio |-> None]
    ELSE IF includes_video_track(codecs, type)
    THEN [raised |-> FALSE, video |-> codecs[1], audio |-> None]
    ELSE IF includes_audio_track(codecs, type)
    THEN [raised |-> FALSE, video |-> None, audio |-> codecs[1]]
    ELSE [raised |-> FALSE, video |-> None, audio |-> None]

\* parse_codecs, lines 124-132; `video, audio = self.codecs` raises
\* ValueError unless the list holds exactly two entries
parse_codecs(codecs, type) ==
    IF ~is_adaptive(codecs)
    THEN IF Len(codecs) = 2
         THEN [raised |-> FALSE, video |-> codecs[1], audio |-> codecs[2]]
         ELSE [raised |-> TRUE, video |-> None, audio |-> None]
    ELSE IF includes_video_track(codecs, type)
    THEN [raised |-> FALSE, video |-> codecs[1], audio |-> None]
    ELSE IF includes_audio_track(codecs, type)
    THEN [raised |-> FALSE, video |-> None, audio |-> codecs[1]]
    ELSE [raised |-> FALSE, video |-> None, audio |-> None]

\* pytube.itags.get_format_profile, as the specification describes it
\* (sections 4.3 and 7): the profile of an itag of the static table; an itag
\* that is not in the table is a failure (UnknownFormatError)
get_format_profile(itag) ==
    IF itag \in KnownItags
    THEN [raised |-> FALSE,
          profile |-> IF itag = 18
                      THEN [resolution |-> "360p", abr |-> "96kbps"]
                      ELSE [resolution |-> None, abr |-> "128kbps"]]
    ELSE [raised |-> TRUE, profile |-> [resolution |-> None, abr |-> None]]

\* the object after lines 44-61, and after lines 65-75
Attributes(rec, parsed, profile) ==
    [itag |-> rec.itag, type |-> rec.mime_type[1], subtype |-> rec.mime_type[2],
     codecs |-> rec.codecs, video_codec |-> parsed.video,
     audio_codec |-> parsed.audio, resolution |-> profile.resolution,
     abr |-> profile.abr]

\* a constructor that gives a descriptor without profile attributes when the
\* lookup fails
Stream_init_without_profile(rec) ==
    LET parsed == parse_codecs(rec.codecs, rec.mime_type[1])
        found == get_format_profile(rec.itag)
    IN  IF parsed.raised
        THEN [pc |-> "raised", error |-> "ValueError", streams |-> <<>>]
        ELSE [pc |-> "returned", error |-> "none",
              streams |-> <<Attributes(rec, parsed, found.profile)>>]

\* Stream.__init__, lines 44-75: an exception of parse_codecs (line 59) or
\* of get_format_profile (line 65) leaves the constructor, and the caller
\* gets no object
Stream_init(rec) ==
    LET parsed == parse_codecs(rec.codecs, rec.mime_type[1])
        found == get_format_profile(rec.itag)
    IN  IF parsed.raised
        THEN [pc |-> "raised", error |-> "ValueError", streams |-> <<>>]
        ELSE IF found.raised
        THEN [pc |-> "raised", error |-> "UnknownFormatError", streams |-> <<>>]
        ELSE [pc |-> "returned", error |-> "none",
              streams |-> <<Attributes(rec, parsed, found.profile)>>]

InitBuild ==
    /\ record \in Records
    /\ built = NotBuilt
    /\ EngineQuiet /\ SigQuiet /\ DescrQuiet

\* Stream(stream, player_config_args, monostate) is called with the record
Construct ==
    /\ built.pc = "idle"
    /\ built' = Stream_init(record)
    /\ UNCHANGED <<record, engine_vars, sig_vars, descr_vars>>

NextBuild == Construct

SpecBuild == InitBuild /\ [][NextBuild]_vars

----------------------------------------------------------------------------
(* apply_descrambler (pytube/mixins.py) *)

\* A string is the sequence of its characters.  parse_qsl and unquote are
\* the standard library's urllib.parse functions, which mixins.py imports
\* through pytube.compat; they are modelled by what they do.

\* the encoded string holds at most this many key/value pairs
MaxPairs == 3

\* the pairs an encoded string may be made of: 'i=5', 'u=%2C' (an encoded
\* comma), 'u=%252C' (a comma encoded twice), 'u=' (a blank value), 'k'
\* (no '='), 'u=%x' (a bad percent-escape), 't=x+x', and the empty pair
PairForms ==
    { <<"i", "=", "5">>,
      <<"u", "=", "%", "2", "C">>,
      <<"u", "=", "%", "2", "5", "2", "C">>,
      <<"u", "=">>,
      <<"k">>,
      <<"u", "=", "%", "x">>,
      <<"t", "=", "x", "+", "x">>,
      <<>> }

\* '&' separates the pairs of a segment, ',' separates the segments
Separators == {"&", ","}

RECURSIVE EncodedStrings(_)
\* the encoded strings of exactly n pairs
EncodedStrings(n) ==
    IF n = 0 THEN {<<>>}
    ELSE IF n = 1 THEN PairForms
    ELSE {q \o <<sep>> \o f :
            q \in EncodedStrings(n - 1), sep \in Separators, f \in PairForms}

\* the key apply_descrambler is called with, and another key of the dict
FmtKey == "url_encoded_fmt_stream_map"
OtherKey == "title"

\* the index of the first c in s, 0 when there is none
Find(s, c) ==
    IF \E k \in 1..Len(s) : s[k] = c
    THEN CHOOSE k \in 1..Len(s) : s[k] = c /\ \A j \in 1..(k - 1) : s[j] # c
    ELSE 0

RECURSIVE split(_, _)
\* str.split(sep): the pieces between the separators, '' included
split(s, sep) ==
    LET k == Find(s, sep)
    IN  IF k = 0 THEN <<s>>
        ELSE <<SubSeq(s, 1, k - 1)>> \o split(SubSeq(s, k + 1, Len(s)), sep)

\* the hexadecimal digits that occur in the encoded strings
IsHex(c) == c \in {"2", "5", "C"}

\* the character a percent-escape stands for: %25 is '%', %2C is ','
HexChar(a, b) ==
    IF <<a, b>> = <<"2", "5">> THEN "%"
    ELSE IF <<a, b>> = <<"2", "C">> THEN ","
    ELSE "?"

RECURSIVE unquote(_)
\* urllib.parse.unquote: every %XX with two hexadecimal digits is replaced
\* by its character; a '%' that is not followed by two hexadecimal digits
\* is left as it is, and nothing is raised
unquote(s) ==
    IF s = <<>> THEN <<>>
    ELSE IF s[1] = "%" /\ Len(s) >= 3 /\ IsHex(s[2]) /\ IsHex(s[3])
    THEN <<HexChar(s[2], s[3])>> \o unquote(SubSeq(s, 4, Len(s)))
    ELSE <<s[1]>> \o unquote(Tail(s))

\* str.replace('+', ' ')
plus_to_space(s) == [k \in 1..Len(s) |-> IF s[k] = "+" THEN " " ELSE s[k]]

RECURSIVE qsl_pairs(_)
\* the loop of urllib.parse.parse_qsl over the pieces between '&', with
\* keep_blank_values and strict_parsing false: an empty piece, a piece
\* without '=' and a piece with a blank value are skipped; name and value
\* are unquoted, '+' read as a space
qsl_pairs(pieces) ==
    IF pieces = <<>> THEN <<>>
    ELSE LET name_value == Head(pieces)
             k == Find(name_value, "=")
             name == SubSeq(name_value, 1, k - 1)
             value == SubSeq(name_value, k + 1, Len(name_value))
         IN  (IF name_value = <<>> \/ k = 0 \/ value = <<>>
              THEN <<>>
              ELSE << <<unquote(plus_to_space(name)), unquote(plus_to_space(value))>> >>)
             \o qsl_pairs(Tail(pieces))

\* urllib.parse.parse_qsl(qs): the list of (name, value) pairs
parse_qsl(qs) == qsl_pairs(split(qs, "&"))

\* line 63: {k: unquote(v) for k, v in parse_qsl(i)}; a later pair of the
\* same name replaces an earlier one
descrambled_record(i) ==
    LET pairs == parse_qsl(i)
        last(name) == CHOOSE n \in 1..Len(pairs) :
                        /\ pairs[n][1] = name
                        /\ \A m \in (n + 1)..Len(pairs) : pairs[m][1] # name
    IN  [name \in {pairs[n][1] : n \in 1..Len(pairs)} |->
            unquote(pairs[last(name)][2])]

\* lines 62-65: one record per piece of stream_data[key].split(',')
descrambled(value) ==
    LET pieces == split(value, ",")
    IN  [n \in 1..Len(pieces) |-> descrambled_record(pieces[n])]

InitDescr ==
    /\ \E n \in 0..MaxPairs : \E value \in EncodedStrings(n) :
         stream_data = [key \in {FmtKey, OtherKey} |->
                          IF key = FmtKey THEN value ELSE <<"T">>]
    /\ descramble = IdleDescramble
    /\ EngineQuiet /\ SigQuiet /\ BuildQuiet

\* apply_descrambler(stream_data, key), lines 62-66: nothing in it raises
\* for a string value, whatever the string
ApplyDescrambler ==
    /\ descramble.pc = "idle"
    /\ stream_data' = [stream_data EXCEPT ![FmtKey] = descrambled(@)]
    /\ descramble' = [descramble EXCEPT !.pc = "returned",
                                        !.given = stream_data[FmtKey]]
    /\ UNCHANGED <<engine_vars, sig_vars, build_vars>>

NextDescr == ApplyDescrambler

SpecDescr == InitDescr /\ [][NextDescr]_vars

----------------------------------------------------------------------------
(* Properties *)

\* the events of one kind in a call's record
EventsOf(d, kind) == SelectSeq(call[d].events, LAMBDA e : e.ev = kind)

\* the number of bytes in the first i chunks
BytesIn(cs, i) == Len(Flatten(SubSeq(cs, 1, i)))

\* the call on d moves bytes: stream_to_buffer, or a download that was not
\* skipped
Transfers(d) ==
    /\ call[d].op \in {"download", "stream_to_buffer"}
    /\ call[d].stream_requests > 0

\* the call on d has returned to its caller
Returned(d) == call[d].pc = "done" /\ call[d].outcome = "returned"

\* C1: in a transferring download() or a stream_to_buffer() call, the i-th
\* invocation of the progress callback is for chunk c_i and gets
\* bytes_remaining = T - (len c_1 + ... + len c_i), T the remote
\* content-length; when the stream ends with the lengths summing to T, the
\* last invocation got 0.
C1_ProgressAccounting ==
    \A d \in Streams :
        Transfers(d) =>
            LET pe == EventsOf(d, "progress")
                cs == call[d].delivered
                T  == content_length[d]
            IN  /\ Len(pe) <= Len(cs)
                /\ \A i \in 1..Len(pe) :
                     /\ pe[i].chunk = cs[i]
                     /\ pe[i].rem = T - BytesIn(cs, i)
                /\ ( /\ call[d].exhausted
                     /\ BytesIn(cs, Len(cs)) = T
                     /\ monostate.on_progress
                     /\ Len(cs) > 0 )
                   => (Len(pe) = Len(cs) /\ pe[Len(pe)].rem = 0)

\* a download of two chunks whose lengths sum to T has returned, the
\* progress callback having been told 0 for the last chunk
C1_Witness ==
    \E d \in Streams :
        /\ call[d].op = "download" /\ Returned(d) /\ Transfers(d)
        /\ Len(call[d].delivered) = 2
        /\ BytesIn(call[d].delivered, 2) = content_length[d]
        /\ Len(EventsOf(d, "progress")) = 2
        /\ EventsOf(d, "progress")[2].rem = 0

\* C2: a transferring download() or a stream_to_buffer() that returns while
\* a completion callback is registered has invoked it exactly once, with
\* (stream, sink); the invocation is the call's last event, it comes after
\* the stream has ended and after the write (and the progress callback, when
\* one is registered) of every chunk, and there is never more than one.
C2_CompletionOnce ==
    \A d \in Streams :
        LET ev == call[d].events
            ce == EventsOf(d, "complete")
        IN  /\ Len(ce) <= 1
            /\ \A k \in 1..Len(ev) :
                 ev[k].ev = "complete" =>
                    /\ k = Len(ev)
                    /\ call[d].exhausted
                    /\ ev[k].stream = d
                    /\ ev[k].sink = SinkOf(d)
                    /\ Len(EventsOf(d, "write")) = Len(call[d].delivered)
                    /\ monostate.on_progress =>
                         Len(EventsOf(d, "progress")) = Len(call[d].delivered)
            /\ (Transfers(d) /\ Returned(d) /\ monostate.on_complete)
                 => Len(ce) = 1
            /\ ~monostate.on_complete => Len(ce) = 0

\* a download of two chunks has returned after invoking both callbacks
C2_Witness ==
    \E d \in Streams :
        /\ call[d].op = "download" /\ Returned(d) /\ Transfers(d)
        /\ Len(call[d].delivered) = 2
        /\ Len(EventsOf(d, "progress")) = 2
        /\ Len(EventsOf(d, "complete")) = 1
        /\ call[d].events[Len(call[d].events)].ev = "complete"

\* C3: a download() called with skip_existing true while a file of the
\* remote content-length's size exists at the resolved path requests no
\* chunk stream, does not open the file, leaves the file as it was and
\* invokes no callback; it returns that path, unless the headers request it
\* needs to learn the content-length fails, and then it ends with that
\* failure.
C3_SkipExisting ==
    \A d \in Streams :
        ( /\ call[d].op = "download"
          /\ call[d].skip_existing
          /\ call[d].file_before.exists
          /\ Len(call[d].file_before.data) = content_length[d] )
        => /\ call[d].pc \in {"done", "raised"}
           /\ call[d].stream_requests = 0
           /\ call[d].events = <<>>
           /\ call[d].sink = <<>>
           /\ files[call[d].file_path] = call[d].file_before
           /\ IF call[d].headers_requests > 0 /\ ~headers_ok[d]
              THEN call[d].error = "headers"
              ELSE Returned(d) /\ call[d].result = call[d].file_path

\* a download has been skipped over a file of the right, non-zero size
C3_Witness ==
    \E d \in Streams :
        /\ call[d].op = "download" /\ call[d].skip_existing /\ Returned(d)
        /\ call[d].file_before.exists
        /\ Len(call[d].file_before.data) = content_length[d]
        /\ call[d].stream_requests = 0
        /\ files[call[d].file_path].data = call[d].file_before.data

\* the url holds the resolved-signature marker
HasMarker(url) == \E k \in 1..Len(url) : url[k] = "signature="

\* C4: during an apply_signature call, an entry whose url held the marker
\* when the call began keeps its url and gets no solver call; a call made
\* after a call that returned changes no url and calls the solver for no
\* entry.
C4_Idempotent ==
    apply.pc # "idle" =>
        /\ Len(stream_manifest) = Len(apply.snapshot)
        /\ \A i \in 1..Len(apply.snapshot) :
             HasMarker(apply.snapshot[i].url) =>
                /\ stream_manifest[i].url = apply.snapshot[i].url
                /\ \A k \in 1..Len(apply.solver_calls) :
                     apply.solver_calls[k].index # i
        /\ apply.after_return =>
             /\ stream_manifest = apply.snapshot
             /\ apply.solver_calls = <<>>

\* a second call has returned over a family of two entries, one of them
\* signed by the first call and one pre-signed
C4_Witness ==
    /\ apply.pc = "returned" /\ apply.after_return
    /\ Len(stream_manifest) = 2
    /\ \E i, j \in 1..2 :
         /\ stream_manifest[i].url # PreSignedUrl
         /\ stream_manifest[j].url = PreSignedUrl
    /\ \A i \in 1..2 : HasMarker(stream_manifest[i].url)

\* C5: when the solver fails for an entry, the error that reaches the caller
\* of apply_signature identifies that entry's itag.
C5_ErrorNamesItag ==
    (apply.pc = "raised" /\ apply.error[1] = "solver_error") =>
        \E k \in 1..Len(apply.error) :
            apply.error[k] = stream_manifest[apply.failed_at].itag

\* C6: when the progress callback raises while handling chunk i, the call
\* ends with that failure; chunk i is the last chunk taken from the
\* transport and the last one written, its progress invocation is the last
\* event, and the completion callback is not invoked.
C6_ProgressFailureAborts ==
    \A d \in Streams :
        call[d].callback_raised_at > 0 =>
            LET i == call[d].callback_raised_at
                ev == call[d].events
            IN  /\ call[d].pc = "raised"
                /\ call[d].outcome = "raised"
                /\ call[d].error = "progress_callback"
                /\ Len(call[d].delivered) = i
                /\ Len(EventsOf(d, "write")) = i
                /\ Len(EventsOf(d, "progress")) = i
                /\ ev[Len(ev)].ev = "progress"
                /\ call[d].sink = Flatten(SubSeq(call[d].delivered, 1, i))
                /\ Len(EventsOf(d, "complete")) = 0

\* the progress callback has raised on the second chunk of a
\* stream_to_buffer call, which has ended with that failure
C6_Witness ==
    \E d \in Streams :
        /\ call[d].callback_raised_at = 2
        /\ call[d].op = "stream_to_buffer"
        /\ call[d].pc = "raised"

\* C7: a call that starts after a headers request has succeeded for its
\* descriptor issues no headers request; from that success on the cache
\* holds the value that request returned, and a filesize read returns it.
C7_FilesizeCachedOnce ==
    \A d \in Streams :
        /\ headers_ok[d] => _filesize[d] = <<content_length[d]>>
        /\ call[d].headers_ok_before => call[d].headers_requests = 0
        /\ (call[d].op = "filesize" /\ Returned(d))
             => call[d].result = <<content_length[d]>>
        /\ _filesize[d] # <<>> => headers_ok[d]

\* a read of filesize has returned the cached value without a request
C7_Witness ==
    \E d \in Streams :
        /\ call[d].op = "filesize" /\ Returned(d)
        /\ call[d].headers_ok_before
        /\ call[d].headers_requests = 0
        /\ call[d].result = _filesize[d]

\* what the callbacks and the sink see of an event, the sink's identity aside
Seen(e) == [ev |-> e.ev, chunk |-> e.chunk, rem |-> e.rem, held |-> e.held]

\* C8: a transferring download() and a stream_to_buffer() that have the same
\* content-length and have been given the same chunks, and stand at the
\* same point (or have ended the same way), have made the same writes and
\* the same callback invocations with the same chunk and bytes_remaining
\* values, and hold the same bytes and the same remainder; stream_to_buffer
\* always requests the chunk stream.
C8_BufferLikeDownload ==
    \A d1, d2 \in Streams :
        /\ ( /\ call[d1].op = "download" /\ Transfers(d1)
             /\ call[d2].op = "stream_to_buffer"
             /\ content_length[d1] = content_length[d2]
             /\ call[d1].delivered = call[d2].delivered
             /\ call[d1].pc = call[d2].pc
             /\ call[d1].error = call[d2].error )
           => /\ Len(call[d1].events) = Len(call[d2].events)
              /\ \A k \in 1..Len(call[d1].events) :
                   Seen(call[d1].events[k]) = Seen(call[d2].events[k])
              /\ call[d1].sink = call[d2].sink
              /\ call[d1].bytes_remaining = call[d2].bytes_remaining
        /\ (call[d2].op = "stream_to_buffer" /\ call[d2].pc # "raised")
             => call[d2].stream_requests = 1

\* a download and a stream_to_buffer have both returned after the same two
\* chunks, with both callbacks registered
C8_Witness ==
    \E d1, d2 \in Streams :
        /\ call[d1].op = "download" /\ Transfers(d1) /\ Returned(d1)
        /\ call[d2].op = "stream_to_buffer" /\ Returned(d2)
        /\ content_length[d1] = content_length[d2]
        /\ call[d1].delivered = call[d2].delivered
        /\ Len(call[d1].delivered) = 2
        /\ monostate.on_progress /\ monostate.on_complete

\* what a call on d has written, told its callbacks and holds is its own:
\* the chunks of its own stream, its own sink, its own remainder
OwnTransfer(d) ==
    LET ev == call[d].events
        we == EventsOf(d, "write")
        pe == EventsOf(d, "progress")
        cs == call[d].delivered
    IN  /\ \A k \in 1..Len(ev) : ev[k].stream = d /\ ev[k].sink = SinkOf(d)
        /\ Len(we) <= Len(cs)
        /\ \A k \in 1..Len(we) :
             /\ we[k].chunk = cs[k]
             /\ we[k].held = Flatten(SubSeq(cs, 1, k))
        /\ call[d].sink = Flatten(SubSeq(cs, 1, Len(we)))
        /\ \A k \in 1..Len(pe) :
             /\ pe[k].chunk = cs[k]
             /\ pe[k].held = Flatten(SubSeq(cs, 1, k))
             /\ pe[k].rem = content_length[d] - BytesIn(cs, k)
        /\ call[d].bytes_remaining = content_length[d] - BytesIn(cs, Len(cs))

\* C9: with one thread per descriptor and every interleaving of the calls'
\* steps, each call's sink receives exactly the chunks of its own stream, in
\* order, each progress invocation reports the call's own stream, sink and
\* remainder, two calls never share a sink, and no step changes the
\* callbacks held in the monostate.
C9_ConcurrentCallsIndependent ==
    /\ [](\A d \in Streams : Transfers(d) => OwnTransfer(d))
    /\ [](\A d1, d2 \in Streams : d1 # d2 => SinkOf(d1) # SinkOf(d2))
    /\ [][monostate' = monostate]_vars

\* two transfers of different chunks are under way at once, each having
\* written and reported one chunk while the other was in progress
C9_Witness ==
    \E d1, d2 \in Streams :
        /\ d1 # d2
        /\ Transfers(d1) /\ Transfers(d2)
        /\ call[d1].pc = "on_progress" /\ call[d2].pc = "iter"
        /\ Len(EventsOf(d1, "progress")) = 1
        /\ Len(EventsOf(d2, "progress")) = 1
        /\ Len(call[d1].delivered) = 2
        /\ call[d1].delivered[1] # call[d2].delivered[1]
        /\ content_length[d1] # content_length[d2]

\* C10: when the transport fails during download() after delivering
\* c1..ci, the call ends with that failure, the chunk stream was requested
\* once, the completion callback has not been invoked, and the file on disk
\* holds exactly c1..ci in order.
C10_TransferFailureLeavesPartialFile ==
    \A d \in Streams :
        (call[d].op = "download" /\ call[d].error = "transfer") =>
            /\ call[d].pc = "raised"
            /\ call[d].outcome = "raised"
            /\ call[d].stream_requests = 1
            /\ Len(EventsOf(d, "complete")) = 0
            /\ Len(EventsOf(d, "write")) = Len(call[d].delivered)
            /\ files[call[d].file_path] =
                 [exists |-> TRUE, data |-> Flatten(call[d].delivered)]

\* the transport has failed after the first chunk of a download, and the
\* file holds that chunk
C10_Witness ==
    \E d \in Streams :
        /\ call[d].op = "download" /\ call[d].error = "transfer"
        /\ Len(call[d].delivered) = 1
        /\ files[call[d].file_path].data = call[d].delivered[1]
        /\ Len(files[call[d].file_path].data) < content_length[d]

\* C18: in a transferring download() or stream_to_buffer(), every progress
\* invocation comes right after the write of the chunk it reports, so the
\* i-th invocation finds the sink holding exactly c1..ci in order; every
\* chunk taken from the transport is written whether or not a progress
\* callback is registered, and after the call returns the sink (and, for a
\* download, the file) holds c1..cn.
C18_WriteBeforeProgress ==
    \A d \in Streams :
        Transfers(d) =>
            LET ev == call[d].events
                we == EventsOf(d, "write")
                pe == EventsOf(d, "progress")
                cs == call[d].delivered
            IN  /\ \A k \in 1..Len(ev) :
                     ev[k].ev = "progress" =>
                        /\ k > 1
                        /\ ev[k - 1].ev = "write"
                        /\ ev[k - 1].chunk = ev[k].chunk
                        /\ ev[k - 1].held = ev[k].held
                /\ \A i \in 1..Len(pe) :
                     /\ pe[i].chunk = cs[i]
                     /\ pe[i].held = Flatten(SubSeq(cs, 1, i))
                /\ Len(we) = IF call[d].pc = "on_progress"
                             THEN Len(cs) - 1 ELSE Len(cs)
                /\ \A i \in 1..Len(we) :
                     we[i].chunk = cs[i] /\ we[i].held = Flatten(SubSeq(cs, 1, i))
                /\ monostate.on_progress => Len(pe) = Len(we)
                /\ ~monostate.on_progress => Len(pe) = 0
                /\ call[d].sink = Flatten(SubSeq(cs, 1, Len(we)))
                /\ Returned(d) =>
                     /\ call[d].sink = Flatten(cs)
                     /\ call[d].op = "download" =>
                          files[call[d].file_path].data = Flatten(cs)

\* a download has returned after two chunks, the progress callback having
\* found c1 and then c1 c2 in the sink
C18_Witness ==
    \E d \in Streams :
        /\ call[d].op = "download" /\ Transfers(d) /\ Returned(d)
        /\ Len(call[d].delivered) = 2
        /\ Len(EventsOf(d, "progress")) = 2
        /\ EventsOf(d, "progress")[1].held = call[d].delivered[1]
        /\ EventsOf(d, "progress")[2].held = Flatten(call[d].delivered)
        /\ call[d].sink = Flatten(call[d].delivered)

\* C19: the completion callback of download() is invoked with the handle
\* closed and every chunk on disk, while the completion callback of
\* stream_to_buffer() is invoked with the buffer open.
C19_CompleteAfterClose ==
    \A d \in Streams :
        \A k \in 1..Len(call[d].events) :
            call[d].events[k].ev = "complete" =>
                IF call[d].op = "download"
                THEN /\ call[d].events[k].closed
                     /\ call[d].fh_closed
                     /\ call[d].events[k].held = Flatten(call[d].delivered)
                     /\ files[call[d].file_path] =
                          [exists |-> TRUE, data |-> Flatten(call[d].delivered)]
                ELSE /\ call[d].op = "stream_to_buffer"
                     /\ ~call[d].events[k].closed
                     /\ ~call[d].fh_closed

\* the completion callbacks of a download and of a stream_to_buffer, of two
\* chunks each, have been invoked: the first with the handle closed, the
\* second with the buffer open
C19_Witness ==
    \E d1, d2 \in Streams :
        /\ call[d1].op = "download" /\ Transfers(d1)
        /\ Len(call[d1].delivered) = 2
        /\ Len(EventsOf(d1, "complete")) = 1
        /\ EventsOf(d1, "complete")[1].closed
        /\ Len(files[call[d1].file_path].data) >= 2
        /\ call[d2].op = "stream_to_buffer"
        /\ Len(call[d2].delivered) = 2
        /\ Len(EventsOf(d2, "complete")) = 1
        /\ ~EventsOf(d2, "complete")[1].closed

\* the solver calls made so far for the entry at index i
CallsFor(i) == SelectSeq(apply.solver_calls, LAMBDA c : c.index = i)

\* C14: during an apply_signature call, every entry already passed whose
\* url lacked the marker when the call began got exactly one solver call,
\* made with the platform script and the entry's scrambled token, and its
\* url is now the old url followed by '&signature=' and what the solver
\* returned, its other fields being as they were; the solver calls were
\* made in the entries' order, and the entries not yet reached are as they
\* were.
C14_SignsInOrder ==
    apply.pc # "idle" =>
        /\ Len(stream_manifest) = Len(apply.snapshot)
        /\ \A k \in 1..Len(apply.solver_calls) :
             LET c == apply.solver_calls[k]
             IN  /\ c.js = Script
                 /\ c.s = apply.snapshot[c.index].s
                 /\ ~HasMarker(apply.snapshot[c.index].url)
                 /\ k > 1 => apply.solver_calls[k - 1].index < c.index
        /\ \A i \in 1..Len(apply.snapshot) :
             LET old == apply.snapshot[i]
                 new == stream_manifest[i]
             IN  IF i < apply.i /\ ~HasMarker(old.url)
                 THEN /\ Len(CallsFor(i)) = 1
                      /\ CallsFor(i)[1].result \in Signatures
                      /\ new.url = old.url \o <<"&", "signature=">>
                                           \o <<CallsFor(i)[1].result>>
                      /\ new.itag = old.itag
                      /\ new.s = old.s
                 ELSE new = old

\* a call has returned over two unsigned entries: the solver was called for
\* the first and then for the second, and both urls end in their signature
C14_Witness ==
    /\ apply.pc = "returned"
    /\ Len(apply.snapshot) = 2
    /\ \A i \in 1..2 : apply.snapshot[i].url = UnsignedUrl
    /\ Len(apply.solver_calls) = 2
    /\ apply.solver_calls[1].index = 1 /\ apply.solver_calls[2].index = 2
    /\ \A i \in 1..2 :
         stream_manifest[i].url =
            UnsignedUrl \o <<"&", "signature=", apply.solver_calls[i].result>>

\* C20: when the solver fails at the entry with index k, every entry below
\* k whose url lacked the marker when the call began has been signed in
\* place, the entries with index k and above are as they were, and no later
\* step takes a marker away from an entry.
C20_NotAllOrNothing ==
    /\ []( (apply.pc = "raised" /\ apply.error[1] = "solver_error") =>
             LET k == apply.failed_at
             IN  /\ k \in 1..Len(stream_manifest)
                 /\ Len(stream_manifest) = Len(apply.snapshot)
                 /\ \A i \in 1..Len(apply.snapshot) :
                      IF i < k /\ ~HasMarker(apply.snapshot[i].url)
                      THEN /\ HasMarker(stream_manifest[i].url)
                           /\ stream_manifest[i].url # apply.snapshot[i].url
                      ELSE stream_manifest[i] = apply.snapshot[i] )
    /\ [][ /\ Len(stream_manifest') = Len(stream_manifest)
           /\ \A i \in 1..Len(stream_manifest) :
                HasMarker(stream_manifest[i].url) =>
                    stream_manifest'[i].url = stream_manifest[i].url ]_vars

\* the solver has failed at the second of two unsigned entries: the first
\* is signed, the second is not
C20_Witness ==
    /\ apply.pc = "raised" /\ apply.error[1] = "solver_error"
    /\ apply.failed_at = 2
    /\ apply.snapshot[1].url = UnsignedUrl
    /\ HasMarker(stream_manifest[1].url)
    /\ stream_manifest[2].url = UnsignedUrl

\* the argument was given to the call (an empty string counts as not given)
Given(arg) == arg \notin {None, ""}

\* the file name the call on d was asked for: sanitized(filename) "."
\* subtype, or sanitized(title) "." subtype, after sanitized(prefix)
NameAskedFor(d) ==
    LET stem == IF Given(call[d].filename) THEN call[d].filename ELSE Title
        name == << <<"safe", stem>>, <<"lit", ".">>, <<"lit", Subtype(d)>> >>
    IN  IF Given(call[d].filename_prefix)
        THEN << <<"safe", call[d].filename_prefix>> >> \o name
        ELSE name

\* C17: the path a download() resolves is the target directory joined with
\* sanitized(filename) "." subtype when a filename is given, and with
\* sanitized(title) "." subtype otherwise, sanitized(prefix) coming first
\* when a prefix is given; that path is what the call returns, both when the
\* transfer is skipped and when it is performed, and the file of a performed
\* transfer is the one at that path.
C17_ResolvedFileName ==
    \A d \in Streams :
        call[d].op = "download" =>
            LET path == << <<"dir", call[d].output_path>> >> \o NameAskedFor(d)
            IN  /\ call[d].file_path = path
                /\ Returned(d) => call[d].result = path
                /\ (Returned(d) /\ Transfers(d)) =>
                     files[path] = [exists |-> TRUE, data |-> Flatten(call[d].delivered)]
                /\ ( /\ call[d].filename = "clip"
                     /\ call[d].filename_prefix = "01_"
                     /\ Subtype(d) = "mp4" )
                   => call[d].file_path =
                        << <<"dir", call[d].output_path>>, <<"safe", "01_">>,
                           <<"safe", "clip">>, <<"lit", ".">>, <<"lit", "mp4">> >>

\* a download asked for "clip" with prefix "01_" in directory "out" has been
\* skipped over the file lying there and has returned its path
C17_Witness ==
    \E d \in Streams :
        /\ call[d].op = "download" /\ Returned(d)
        /\ call[d].filename = "clip"
        /\ call[d].filename_prefix = "01_"
        /\ call[d].output_path = "out"
        /\ call[d].skip_existing
        /\ call[d].stream_requests = 0
        /\ call[d].file_before.exists
        /\ Len(call[d].result) = 5

\* C11: constructing a descriptor from a record whose itag is not in the
\* profile table fails and gives the caller no descriptor; the failure is
\* UnknownFormatError whenever the lookup is reached, that is, whenever the
\* codecs list has passed parse_codecs.
C11_UnknownItagFails ==
    (built.pc # "idle" /\ record.itag \notin KnownItags) =>
        /\ built.pc = "raised"
        /\ built.streams = <<>>
        /\ ~parse_codecs(record.codecs, record.mime_type[1]).raised
             => built.error = "UnknownFormatError"

\* the construction from a record of two codecs and an unknown itag has
\* failed with UnknownFormatError
C11_Witness ==
    /\ built.pc = "raised"
    /\ built.error = "UnknownFormatError"
    /\ record.itag = 999
    /\ Len(record.codecs) = 2
    /\ built.streams = <<>>

C13_CodecsOneOrTwo ==
    /\ \A k \in 1..Len(built.streams) : Len(built.streams[k].codecs) \in {1, 2}
    /\ (built.pc # "idle" /\ Len(record.codecs) \notin {1, 2})
         => (built.pc = "raised" /\ built.streams = <<>>)

\* the key=value pairs written in a segment, as (key, value) with the
\* text on either side of the first '='
WrittenPairs(segment) ==
    LET pieces == split(segment, "&")
    IN  { <<SubSeq(pieces[n], 1, Find(pieces[n], "=") - 1),
            SubSeq(pieces[n], Find(pieces[n], "=") + 1, Len(pieces[n]))>> :
          n \in {m \in 1..Len(pieces) : Find(pieces[m], "=") > 0} }

\* C15: apply_descrambler puts under the key a sequence of exactly one
\* record per comma-separated segment of the encoded string, in the
\* segments' order; each record maps every key written in its segment, and
\* nothing else, to that key's value percent-decoded once ('+' read as a
\* space, as in any query string); the other keys of the dict are unchanged.
C15_OneRecordPerSegment ==
    descramble.pc = "returned" =>
        LET segments == split(descramble.given, ",")
            records == stream_data[FmtKey]
        IN  /\ Len(records) = Len(segments)
            /\ \A n \in 1..Len(segments) :
                 LET written == WrittenPairs(segments[n])
                 IN  /\ DOMAIN records[n] = {kv[1] : kv \in written}
                     /\ \A kv \in written :
                          (\A other \in written : other[1] = kv[1] => other = kv)
                            => records[n][kv[1]] = unquote(plus_to_space(kv[2]))
            /\ stream_data[OtherKey] = <<"T">>

\* a '%' of the text is not followed by two hexadecimal digits
BadEscape(text) ==
    \E k \in 1..Len(text) :
        /\ text[k] = "%"
        /\ ~(k + 2 <= Len(text) /\ IsHex(text[k + 1]) /\ IsHex(text[k + 2]))

\* the encoded string holds a pair that cannot be parsed (text without '=')
\* or a bad percent-escape
Malformed(value) ==
    \E segment \in {split(value, ",")[n] : n \in 1..Len(split(value, ","))} :
        \E piece \in {split(segment, "&")[n] : n \in 1..Len(split(segment, "&"))} :
            \/ piece # <<>> /\ Find(piece, "=") = 0
            \/ BadEscape(piece)

\* C16: an apply_descrambler call on an encoded string with a malformed
\* segment fails with a decode error; it never returns.
C16_MalformedRaises ==
    (descramble.pc # "idle" /\ Malformed(descramble.given))
        => (descramble.pc = "raised" /\ descramble.error = "decode")

====
